---- MODULE Spec2Model ----
(***************************************************************************)
(* Model of the deployment orchestrator, class Deploy of the webiny CLI    *)
(* (src/unnamed/part_001).  One run of Deploy.deploy is one sequential     *)
(* asynchronous control flow; pc is the await (or loop head) the run is    *)
(* suspended at.  The remote service, the build subprocess, the archiver,  *)
(* the prompts and package discovery are external: their results are       *)
(* chosen with \E when the call returns.  A catch block, and the           *)
(* synchronous code that follows an await, belong to the action of the     *)
(* call they follow.                                                       *)
(***************************************************************************)
EXTENDS Integers, Sequences, FiniteSets, TLC

\* ------------------------------------------------------------------ bounds
MaxPkgs == 2                    \* longest package list listPackages returns

\* ------------------------------------------------------- program constants
MaxAttemptsOffByOne == 10 + 1      \* variant: for (i = 0; i <= 10; i++)
MaxAttempts == 10               \* waitTillActive: for (i = 0; i < 10; i++)
SleepMillis == 5000             \* waitTillActive: this.sleep(5000)

\* ------------------------------------------------------------------ values
Null      == "null"             \* JS null / undefined (a string or id)
NullCfg   == [file |-> "absent"]        \* readJsonSync gives null
NoDeploy  == [id |-> 0]                 \* no deploy record (null)
NoUrl     == <<>>                       \* url: null
NoZip     == <<>>                       \* nothing at the archive path yet
NoName    == 0                  \* deploy() called without a package name
NoErr     == [step |-> "none", code |-> "none"]
GhostKey  == "ghost.js"         \* a key the service may require that was never submitted
AppBuilds == {{"index.html"}, {"index.html", "main.js"}}
ZipKey    == "function.zip"

\* package descriptors: name is the position in the list (names are unique
\* in a workspace); script = the manifest has scripts["build:ssr"]
Kinds ==
    { [type |-> "app",      ssr |-> FALSE, script |-> FALSE],
      [type |-> "app",      ssr |-> TRUE,  script |-> TRUE ],
      [type |-> "app",      ssr |-> TRUE,  script |-> FALSE],
      [type |-> "function", ssr |-> FALSE, script |-> FALSE] }

PackageLists == UNION { [1..n -> Kinds] : n \in 0..MaxPkgs }

NameArgs == {NoName, 1, 2}

\* the two config files: a machine that never ran the tool, and one where a
\* previous run stored the token and the site binding
Stored ==
    { [global |-> NullCfg, project |-> NullCfg],
      [global  |-> [accessToken |-> "tokS", other |-> "x"],
       project |-> [siteId |-> "siteS", other |-> "x"]] }

Falsy(v) == v \in {Null, ""}

VARIABLES
    \* the call and its environment
    ci, name, envToken, envSite, globalCfg, projectCfg,
    \* control
    pc, exit,
    \* fields and locals of the run
    sdk, siteId, packages, cur, files, deploy, presigned, pending,
    deploys, act, i, url, tmpZip,
    \* history
    calls, createResult, submitted, activated, uploaded, listed,
    polls, slept, sawActive, err, refused, prompts, warned,
    discovered, stages,
    \* history of the earlier runs on the same project
    resolved

\* what no step of a run changes
envVars  == <<envToken, envSite, resolved>>
cfgVars  == <<globalCfg, projectCfg>>
argVars  == <<ci, name>>
pkgVars  == <<packages, cur, discovered>>
upVars   == <<files, deploy, presigned, pending, uploaded, warned, stages>>
pollVars == <<i, url, activated, listed, polls, slept, sawActive>>
actVars  == <<deploys, act, i, url, activated, listed, polls, slept, sawActive>>
vars == <<ci, name, envToken, envSite, globalCfg, projectCfg, pc, exit,
          sdk, siteId, packages, cur, files, deploy, presigned, pending,
          deploys, act, i, url, tmpZip, calls, createResult, submitted,
          activated, uploaded, listed, polls, slept, sawActive, err,
          refused, prompts, warned, discovered, stages, resolved>>

Running == exit = "running"

Init ==
    /\ ci = FALSE /\ name = NoName
    /\ envToken \in {"", "tokE"}
    /\ envSite \in {"", "siteE"}
    /\ \E st \in Stored : globalCfg = st.global /\ projectCfg = st.project
    /\ pc = "idle" /\ exit = "running"
    /\ sdk = Null /\ siteId = Null
    /\ packages = <<>> /\ cur = 0
    /\ files = {} /\ deploy = NoDeploy /\ presigned = {} /\ pending = {}
    /\ deploys = <<>> /\ act = 0 /\ i = 0 /\ url = NoUrl /\ tmpZip = NoZip
    /\ calls = {} /\ createResult = <<>> /\ submitted = {}
    /\ activated = <<>> /\ uploaded = {} /\ listed = <<>>
    /\ polls = 0 /\ slept = 0 /\ sawActive = FALSE
    /\ err = NoErr /\ refused = FALSE /\ prompts = {} /\ warned = FALSE
    /\ discovered = FALSE /\ stages = <<>>
    /\ resolved = Null

\* ------------------------------------------------------- pure helpers
\* variant: only the access token is validated
validateCiTokenOnly == envToken # ""

\* validateCiRequirements passes (does not call process.exit(1))
validateCiRequirements == envToken # "" /\ envSite # ""

\* variant: the stored token is preferred to the environment
getAccessTokenStoredFirst ==
    IF globalCfg # NullCfg THEN globalCfg.accessToken
    ELSE IF envToken # "" THEN envToken ELSE Null

getAccessToken ==
    IF envToken # "" THEN envToken
    ELSE IF globalCfg = NullCfg THEN Null
    ELSE globalCfg.accessToken

getSiteId ==
    IF envSite # "" THEN envSite
    ELSE IF projectCfg = NullCfg THEN Null
    ELSE projectCfg.siteId

storeAccessToken(cfg, token) ==
    IF cfg = NullCfg THEN [accessToken |-> token, other |-> Null]
    ELSE [cfg EXCEPT !.accessToken = token]

\* variant: the record is replaced, not merged
storeSiteIdOverwrite(cfg, id) == [siteId |-> id, other |-> Null]

storeSiteId(cfg, id) ==
    IF cfg = NullCfg THEN [siteId |-> id, other |-> Null]
    ELSE [cfg EXCEPT !.siteId = id]

\* checkNetworkError(err) terminates the process
checkNetworkError(code) == code = "ECONNREFUSED"

\* variant: an unknown name falls back to the first package
findOrFirst(pkgs, n) ==
    IF n \in 1..Len(pkgs) THEN n ELSE IF Len(pkgs) > 0 THEN 1 ELSE 0
\* packages.find(p => p.name === name): the index, 0 for undefined
find(pkgs, n) == IF n \in 1..Len(pkgs) THEN n ELSE 0

\* Object.keys(deploys): insertion order, which is discovery order
RECURSIVE KeysUpTo(_, _)
KeysUpTo(d, n) ==
    IF n = 0 THEN <<>>
    ELSE IF d[n] = NoDeploy THEN KeysUpTo(d, n - 1)
    ELSE Append(KeysUpTo(d, n - 1), n)
\* variant: the map entry is written before the null check, so a skipped
\* package leaves a key behind
ObjectKeysWithNulls(d) == [k \in 1..Len(d) |-> k]
ObjectKeys(d) == KeysUpTo(d, Len(d))

UrlOf(id) == <<"url", id>>
Hash(content) == <<"sha", content>>
\* fs.readFile(abs): the archive path holds whatever was written last
ZipPath == <<"tmp", "function.zip">>
\* variant: the packages are processed concurrently, so that the path
\* holds the archive of the last package when any upload reads it
readFileAfterAllArchives(f) ==
    IF f.abs = ZipPath THEN <<"zip", Len(packages)>> ELSE f.abs
readFile(f) == IF f.abs = ZipPath THEN tmpZip ELSE f.abs

\* ------------------------------------------------------ control fragments
processExit(code) == pc' = "done" /\ exit' = code
Rejected == pc' = "done" /\ exit' = "rejected"
Raise(step, code) ==
    /\ err' = [step |-> step, code |-> code]
    /\ refused' = (refused \/ code = "ECONNREFUSED")
Call(kind) == calls' = calls \cup {kind}
\* a step of the current package's pipeline completed
Stage(s) == stages' = Append(stages, s)

\* where a deployed package goes next: its build variant or its digest
AfterBuild(p) == IF p.type = "app" THEN "digest" ELSE "zip"

\* variant: a skipped package ends the creation loop (break for continue)
DeployPackageReturnedBreak(d) ==
    IF name # NoName
    THEN /\ IF d = NoDeploy THEN pc' = "done" /\ exit' = "returned"
            ELSE pc' = "activate" /\ exit' = exit
         /\ UNCHANGED <<cur, deploys, act>>
    ELSE LET ds == IF d = NoDeploy THEN deploys
                   ELSE [deploys EXCEPT ![cur] = [id |-> d.id, url |-> NoUrl]]
         IN /\ deploys' = ds
            /\ IF cur < Len(packages) /\ d # NoDeploy
               THEN cur' = cur + 1 /\ pc' = "build" /\ exit' = exit /\ act' = act
               ELSE /\ cur' = cur
                    /\ IF Len(ObjectKeys(ds)) = 0
                       THEN processExit("exit0") /\ act' = act
                       ELSE pc' = "activate" /\ exit' = exit /\ act' = 1

\* deploy(), lines 58-63 and 79-96: what follows the return of
\* deployPackage with value d (a deploy record or NoDeploy)
DeployPackageReturned(d) ==
    IF name # NoName
    THEN /\ IF d = NoDeploy THEN pc' = "done" /\ exit' = "returned"
            ELSE pc' = "activate" /\ exit' = exit
         /\ UNCHANGED <<cur, deploys, act>>
    ELSE LET ds == IF d = NoDeploy THEN deploys
                   ELSE [deploys EXCEPT ![cur] = [id |-> d.id, url |-> NoUrl]]
         IN /\ deploys' = ds
            /\ IF cur < Len(packages)
               THEN cur' = cur + 1 /\ pc' = "build" /\ exit' = exit /\ act' = act
               ELSE /\ cur' = cur
                    /\ IF Len(ObjectKeys(ds)) = 0
                       THEN processExit("exit0") /\ act' = act
                       ELSE pc' = "activate" /\ exit' = exit /\ act' = 1

\* variant: the catch block exits on every error, no-changes included
DeployCatchAlwaysFatal(code) ==
    processExit("exit1") /\ UNCHANGED <<cur, deploys, act>>

\* catch block of deployApp / deployFunction, lines 168-176 and 202-210
DeployCatch(code) ==
    IF checkNetworkError(code) \/ code # "NO_CHANGES_DETECTED"
    THEN processExit("exit1") /\ UNCHANGED <<cur, deploys, act>>
    ELSE DeployPackageReturned(NoDeploy)

\* ------------------------------------------------------------ setup phase
\* deploy(), lines 38-41
Start(c, n) ==
    /\ pc = "idle"
    /\ ci' = c /\ name' = n
    /\ IF c /\ ~validateCiRequirements
       THEN processExit("exit1")
       ELSE pc' = "setupSDK" /\ exit' = exit
    /\ UNCHANGED <<envVars, cfgVars, sdk, siteId, pkgVars, upVars, actVars,
                   tmpZip, calls, createResult, submitted, err, refused, prompts>>

\* setupSDK(), lines 306-313, up to the first await
SetupSDK ==
    /\ pc = "setupSDK"
    /\ IF Falsy(getAccessToken)
       THEN pc' = "askToken" /\ sdk' = sdk
       ELSE pc' = "whoami" /\ sdk' = getAccessToken
    /\ UNCHANGED <<argVars, envVars, cfgVars, exit, siteId, pkgVars, upVars,
                   actVars, tmpZip, calls, createResult, submitted, err,
                   refused, prompts>>

\* setupSDK(), lines 314-322: whoami on the existing token
WhoAmI ==
    /\ pc = "whoami"
    /\ Call("whoami")
    /\ \E r \in {"user", "invalid", "ECONNREFUSED", "ERR"} :
         CASE r = "user" ->
                pc' = "getSiteId" /\ UNCHANGED <<exit, err, refused>>
           [] r = "invalid" ->
                pc' = "askToken" /\ UNCHANGED <<exit, err, refused>>
           [] r = "ECONNREFUSED" ->
                Raise("whoami", r) /\ processExit("exit1")
           [] OTHER ->                       \* caught, not a network error
                Raise("whoami", r) /\ pc' = "getSiteId" /\ exit' = exit
    /\ UNCHANGED <<argVars, envVars, cfgVars, sdk, siteId, pkgVars, upVars,
                   actVars, tmpZip, createResult, submitted, prompts>>

\* ensureToken() / askForToken(), lines 387-430.  The validator runs inside
\* the prompt: a blank or rejected token is asked for again; what the prompt
\* does with a validator that throws is the prompt library's business and
\* is not modelled.
AskForToken ==
    /\ pc = "askToken"
    /\ prompts' = prompts \cup {"token"}
    /\ \E input \in {"", "tokP"} :
         IF input = ""
         THEN UNCHANGED <<pc, sdk, globalCfg, calls>>
         ELSE /\ sdk' = input
              /\ Call("whoami")
              /\ \E r \in {"user", "invalid"} :
                   IF r = "user"
                   THEN /\ globalCfg' = storeAccessToken(globalCfg, input)
                        /\ pc' = "getSiteId"
                   ELSE UNCHANGED <<pc, globalCfg>>
    /\ UNCHANGED <<argVars, envVars, projectCfg, exit, siteId, pkgVars, upVars,
                   actVars, tmpZip, createResult, submitted, err, refused>>

\* deploy(), lines 48-49
GetSiteId ==
    /\ pc = "getSiteId"
    /\ siteId' = getSiteId
    /\ pc' = IF Falsy(getSiteId) THEN "askSite" ELSE "listPackages"
    /\ UNCHANGED <<argVars, envVars, cfgVars, exit, sdk, pkgVars, upVars,
                   actVars, tmpZip, calls, createResult, submitted, err,
                   refused, prompts>>

\* deploy(), lines 50-52, and askForSite(), lines 410-425
AskForSite ==
    /\ pc = "askSite"
    /\ prompts' = prompts \cup {"site"}
    /\ Call("sites")
    /\ \E r \in {"ok", "ECONNREFUSED", "ERR"} :
         IF r = "ok"
         THEN /\ siteId' = "siteP"
              /\ projectCfg' = storeSiteId(projectCfg, "siteP")
              /\ pc' = "listPackages"
              /\ UNCHANGED <<exit, err, refused>>
         ELSE /\ Raise("sites", r) /\ Rejected
              /\ UNCHANGED <<siteId, projectCfg>>
    /\ UNCHANGED <<argVars, envVars, globalCfg, sdk, pkgVars, upVars,
                   actVars, tmpZip, createResult, submitted>>

\* --------------------------------------------------------- package phase
\* deploy(), lines 56-60 and 78-83: discovery, then the first deployPackage
ListPackages ==
    /\ pc = "listPackages"
    /\ \E pk \in PackageLists :
         /\ packages' = pk /\ discovered' = TRUE
         /\ deploys' = [n \in 1..Len(pk) |-> NoDeploy]
         /\ createResult' = [n \in 1..Len(pk) |-> "none"]
         /\ IF name # NoName
            THEN cur' = find(pk, name) /\ pc' = "build" /\ exit' = exit
            ELSE IF Len(pk) = 0
                 THEN cur' = 0 /\ processExit("exit0")
                 ELSE cur' = 1 /\ pc' = "build" /\ exit' = exit
    /\ UNCHANGED <<argVars, envVars, cfgVars, sdk, siteId, upVars, act,
                   pollVars, tmpZip, calls, submitted, err, refused, prompts>>

\* variant: the catch logs the error and forgets process.exit(1)
BuildFailedLogsOnly(step, code) ==
    /\ Raise(step, code) /\ UNCHANGED stages
    /\ IF cur = 0 \/ pc = "buildSsr" \/ ~packages[cur].ssr \/ code = "NO_SSR_SCRIPT"
       THEN IF cur = 0 THEN processExit("exit1")
            ELSE pc' = AfterBuild(packages[cur]) /\ exit' = exit
       ELSE pc' = "buildSsr" /\ exit' = exit

\* deployPackage(), lines 143-146: the catch around ensureBuild
BuildFailed(step, code) ==
    Raise(step, code) /\ processExit("exit1") /\ UNCHANGED stages

\* deployPackage(), lines 141-142, and ensureBuild(), lines 279-293
EnsureBuild ==
    /\ pc = "build"
    /\ IF cur = 0
       THEN BuildFailed("build", "TypeError")
       ELSE \E r \in {"ok", "fail"} :
              IF r = "fail"
              THEN BuildFailed("build", "EXIT_CODE")
              ELSE /\ Stage("build")
                   /\ IF packages[cur].ssr
                      THEN IF packages[cur].script
                           THEN /\ pc' = "buildSsr"
                                /\ UNCHANGED <<exit, err, refused>>
                           ELSE /\ Raise("build", "NO_SSR_SCRIPT")
                                /\ processExit("exit1")
                      ELSE /\ pc' = AfterBuild(packages[cur])
                           /\ UNCHANGED <<exit, err, refused>>
    /\ UNCHANGED <<argVars, envVars, cfgVars, sdk, siteId, pkgVars, files, deploy, presigned, pending, uploaded, warned,
                   actVars, tmpZip, calls, createResult, submitted, prompts>>

\* ensureBuild(), lines 295-299
BuildSsr ==
    /\ pc = "buildSsr"
    /\ \E r \in {"ok", "fail"} :
         IF r = "fail"
         THEN BuildFailed("build:ssr", "EXIT_CODE")
         ELSE /\ pc' = AfterBuild(packages[cur]) /\ Stage("build:ssr")
              /\ UNCHANGED <<exit, err, refused>>
    /\ UNCHANGED <<argVars, envVars, cfgVars, sdk, siteId, pkgVars, files, deploy, presigned, pending, uploaded, warned,
                   actVars, tmpZip, calls, createResult, submitted, prompts>>

\* deployApp(), line 155: outside the try block
GetFilesDigest ==
    /\ pc = "digest"
    /\ \/ \E F \in AppBuilds :
            /\ files' = { [key |-> k, hash |-> Hash(<<"build", cur, k>>),
                           abs |-> <<"build", cur, k>>, type |-> "file"] : k \in F }
            /\ pc' = "createDeploy" /\ Stage("digest")
            /\ UNCHANGED <<exit, err, refused>>
       \/ /\ Raise("getFilesDigest", "ERR") /\ Rejected
          /\ UNCHANGED <<files, stages>>
    /\ UNCHANGED <<argVars, envVars, cfgVars, sdk, siteId, pkgVars, deploy,
                   presigned, pending, uploaded, warned, actVars, tmpZip, calls,
                   createResult, submitted, prompts>>

\* variant: the promise resolves right after archive.finalize(), without
\* waiting for the output stream to close
CreateZipResolvesEarly ==
    /\ pc = "zip"
    /\ tmpZip' = <<"partial">> /\ pc' = "hash"
    /\ warned' = FALSE /\ Stage("archive")
    /\ UNCHANGED <<argVars, envVars, cfgVars, exit, err, refused, sdk, siteId,
                   pkgVars, files, deploy, presigned, pending, uploaded,
                   actVars, calls, createResult, submitted, prompts>>

\* deployFunction(), line 186, and createZip(), lines 241-276
CreateZip ==
    /\ pc = "zip"
    /\ \E r \in {"close", "ENOENT", "WARNING", "ERROR"} :
         IF r \in {"close", "ENOENT"}      \* an ENOENT warning is logged only
         THEN /\ tmpZip' = <<"zip", cur>> /\ pc' = "hash"
              /\ warned' = (r = "ENOENT") /\ Stage("archive")
              /\ UNCHANGED <<exit, err, refused>>
         ELSE /\ tmpZip' = <<"partial">>
              /\ warned' = warned /\ stages' = stages
              /\ Raise("createZip", r) /\ Rejected
    /\ UNCHANGED <<argVars, envVars, cfgVars, sdk, siteId, pkgVars, files,
                   deploy, presigned, pending, uploaded, actVars, calls,
                   createResult, submitted, prompts>>

\* deployFunction(), lines 191-194
GetFileHash ==
    /\ pc = "hash"
    /\ \/ /\ files' = { [key |-> ZipKey, hash |-> Hash(tmpZip),
                         abs |-> ZipPath, type |-> "application/zip"] }
          /\ pc' = "createDeploy" /\ Stage("hash")
          /\ UNCHANGED <<exit, err, refused, cur, deploys, act>>
       \/ /\ Raise("getFileHash", "ERR") /\ DeployCatch("ERR")
          /\ UNCHANGED <<files, stages>>
    /\ UNCHANGED <<argVars, envVars, cfgVars, sdk, siteId, packages, discovered, deploy,
                   presigned, pending, uploaded, warned, pollVars, tmpZip, calls,
                   createResult, submitted, prompts>>

FileKeys(fs) == { f.key : f \in fs }

\* deployApp(), lines 160-162, deployFunction(), line 196, and their catch
CreateDeploy ==
    /\ pc = "createDeploy"
    /\ Call("createDeploy")
    /\ \/ \E req \in SUBSET (FileKeys(files) \cup {GhostKey}) :
            /\ deploy' = [id |-> cur,
                          files |-> { [key |-> k, required |-> k \in req] :
                                      k \in FileKeys(files) \cup req }]
            /\ createResult' = [createResult EXCEPT ![cur] = "ok"]
            /\ submitted' = files
            /\ pc' = "presign" /\ Stage("createDeploy")
            /\ UNCHANGED <<exit, err, refused, cur, deploys, act, files, warned>>
       \/ \E c \in {"NO_CHANGES_DETECTED", "ECONNREFUSED", "ERR"} :
            /\ createResult' = [createResult EXCEPT ![cur] = c]
            /\ Raise("createDeploy", c)
            /\ DeployCatch(c)
            /\ IF c = "NO_CHANGES_DETECTED"
               THEN /\ files' = {} /\ submitted' = {} /\ warned' = FALSE
                    /\ stages' = IF name # NoName THEN stages ELSE <<>>
               ELSE /\ files' = files /\ submitted' = files
                    /\ warned' = warned /\ stages' = stages
            /\ UNCHANGED deploy
    /\ UNCHANGED <<argVars, envVars, cfgVars, sdk, siteId, packages, discovered,
                   presigned, pending, uploaded, pollVars, tmpZip, prompts>>

\* variant: targets are requested for every file of the deploy (no filter)
PresignFilesAll ==
    /\ pc = "presign"
    /\ Call("presignFiles")
    /\ \E r \in {"ok", "ECONNREFUSED", "ERR"} :
         IF r = "ok"
         THEN /\ presigned' = { f.key : f \in deploy.files }
              /\ pc' = "read" /\ Stage("presign")
              /\ UNCHANGED <<exit, err, refused, cur, deploys, act>>
         ELSE /\ Raise("presignFiles", r) /\ DeployCatch(r)
              /\ UNCHANGED <<presigned, stages>>
    /\ UNCHANGED <<argVars, envVars, cfgVars, sdk, siteId, packages, discovered, files,
                   deploy, pending, uploaded, warned, pollVars, tmpZip, createResult,
                   submitted, prompts>>

\* uploadFiles(), lines 215-219, its catch and the caller's catch
PresignFiles ==
    /\ pc = "presign"
    /\ Call("presignFiles")
    /\ \E r \in {"ok", "ECONNREFUSED", "ERR"} :
         IF r = "ok"
         THEN /\ presigned' = { f.key : f \in { g \in deploy.files : g.required } }
              /\ pc' = "read" /\ Stage("presign")
              /\ UNCHANGED <<exit, err, refused, cur, deploys, act>>
         ELSE /\ Raise("presignFiles", r) /\ DeployCatch(r)
              /\ UNCHANGED <<presigned, stages>>
    /\ UNCHANGED <<argVars, envVars, cfgVars, sdk, siteId, packages, discovered, files,
                   deploy, pending, uploaded, warned, pollVars, tmpZip, createResult,
                   submitted, prompts>>

\* variant: a presigned file without a local match is skipped
ReadFilesSkipMissing ==
    /\ pc = "read"
    /\ LET found == { g \in files : g.key \in presigned }
       IN \/ /\ pending' = { [key |-> f.key, content |-> readFile(f)] : f \in found }
             /\ IF found = {}
                THEN /\ pc' = "uploaded" /\ UNCHANGED calls
                     /\ stages' = stages \o <<"read", "upload">>
                ELSE /\ pc' = "upload" /\ Call("uploadPresignedFile")
                     /\ Stage("read")
             /\ UNCHANGED <<exit, err, refused, cur, deploys, act>>
          \/ /\ found # {}
             /\ Raise("readFile", "ERR") /\ DeployCatch("ERR")
             /\ UNCHANGED <<pending, calls, stages>>
    /\ UNCHANGED <<argVars, envVars, cfgVars, sdk, siteId, packages, discovered, files,
                   deploy, presigned, uploaded, warned, pollVars, tmpZip,
                   createResult, submitted, prompts>>

\* uploadFiles(), lines 221-231: find + readFile of every presigned file,
\* then every uploadPresignedFile call is started
ReadFiles ==
    /\ pc = "read"
    /\ IF \E k \in presigned : k \notin FileKeys(files)
       THEN /\ Raise("readFile", "TypeError") /\ DeployCatch("TypeError")
            /\ UNCHANGED <<pending, calls, stages>>
       ELSE \/ /\ pending' = { [key |-> f.key, content |-> readFile(f)] :
                               f \in { g \in files : g.key \in presigned } }
               /\ IF presigned = {}
                  THEN /\ pc' = "uploaded" /\ UNCHANGED calls
                       /\ stages' = stages \o <<"read", "upload">>
                  ELSE /\ pc' = "upload" /\ Call("uploadPresignedFile")
                       /\ Stage("read")
               /\ UNCHANGED <<exit, err, refused, cur, deploys, act>>
            \/ /\ presigned # {}
               /\ Raise("readFile", "ERR") /\ DeployCatch("ERR")
               /\ UNCHANGED <<pending, calls, stages>>
    /\ UNCHANGED <<argVars, envVars, cfgVars, sdk, siteId, packages, discovered, files,
                   deploy, presigned, uploaded, warned, pollVars, tmpZip,
                   createResult, submitted, prompts>>

\* variant: uploadFiles resolves with the first upload that completes
UploadDoneRace(f) ==
    /\ pc = "upload"
    /\ f \in pending
    /\ \E r \in {"ok", "ECONNREFUSED", "ERR"} :
         IF r = "ok"
         THEN /\ uploaded' = uploaded \cup
                     {[deploy |-> deploy.id, key |-> f.key, content |-> f.content]}
              /\ pending' = pending \ {f}
              /\ pc' = "uploaded" /\ Stage("upload")
              /\ UNCHANGED <<exit, err, refused, cur, deploys, act>>
         ELSE /\ Raise("uploadPresignedFile", r) /\ DeployCatch(r)
              /\ UNCHANGED <<uploaded, pending, stages>>
    /\ UNCHANGED <<argVars, envVars, cfgVars, sdk, siteId, packages, discovered, files,
                   deploy, presigned, warned, pollVars, tmpZip, calls, createResult,
                   submitted, prompts>>

\* uploadFiles(), lines 229-238: one of the concurrent uploads settles
UploadDone(f) ==
    /\ pc = "upload"
    /\ f \in pending
    /\ \E r \in {"ok", "ECONNREFUSED", "ERR"} :
         IF r = "ok"
         THEN /\ uploaded' = uploaded \cup
                     {[deploy |-> deploy.id, key |-> f.key, content |-> f.content]}
              /\ pending' = pending \ {f}
              /\ IF pending = {f}
                 THEN pc' = "uploaded" /\ Stage("upload")
                 ELSE pc' = "upload" /\ UNCHANGED stages
              /\ UNCHANGED <<exit, err, refused, cur, deploys, act>>
         ELSE /\ Raise("uploadPresignedFile", r) /\ DeployCatch(r)
              /\ UNCHANGED <<uploaded, pending, stages>>
    /\ UNCHANGED <<argVars, envVars, cfgVars, sdk, siteId, packages, discovered, files,
                   deploy, presigned, warned, pollVars, tmpZip, calls, createResult,
                   submitted, prompts>>

\* variant: in batch mode a deploy is activated as soon as it is returned
ReturnDeployThenActivate ==
    /\ pc = "uploaded"
    /\ IF name # NoName
       THEN DeployPackageReturned(deploy)
       ELSE /\ deploys' = [n \in 1..Len(deploys) |->
                             IF n = cur THEN [id |-> deploy.id, url |-> NoUrl]
                             ELSE NoDeploy]
            /\ pc' = "activate" /\ act' = 1
            /\ UNCHANGED <<exit, cur>>
    /\ deploy' = IF name # NoName THEN [id |-> deploy.id] ELSE NoDeploy
    /\ files' = {} /\ presigned' = {} /\ pending' = {}
    /\ uploaded' = {} /\ submitted' = {} /\ warned' = FALSE
    /\ stages' = IF name # NoName THEN stages ELSE <<>>
    /\ UNCHANGED <<argVars, envVars, cfgVars, sdk, siteId, packages, discovered, pollVars,
                   tmpZip, calls, createResult, err, refused, prompts>>

\* uploadFiles resolves; deployApp / deployFunction return the deploy, of
\* which the caller reads the id only
ReturnDeploy ==
    /\ pc = "uploaded"
    /\ DeployPackageReturned(deploy)
    /\ deploy' = IF name # NoName THEN [id |-> deploy.id] ELSE NoDeploy
    /\ files' = {} /\ presigned' = {} /\ pending' = {}
    /\ uploaded' = {} /\ submitted' = {} /\ warned' = FALSE
    /\ stages' = IF name # NoName THEN stages ELSE <<>>
    /\ UNCHANGED <<argVars, envVars, cfgVars, sdk, siteId, packages, discovered, pollVars,
                   tmpZip, calls, createResult, err, refused, prompts>>

\* ------------------------------------------------------ activation phase
\* the deploy that is being activated and polled
Folders == ObjectKeys(deploys)
\* variant: the activation loop always takes the first entry of the map
TargetFirst == IF name # NoName THEN deploy.id ELSE deploys[Folders[1]].id
Target == IF name # NoName THEN deploy.id ELSE deploys[Folders[act]].id

\* deploy(), lines 66 and 102: not inside any try block
ActivateDeploy ==
    /\ pc = "activate"
    /\ Call("activateDeploy")
    /\ \E r \in {"ok", "ECONNREFUSED", "ERR"} :
         IF r = "ok"
         THEN /\ activated' = Append(activated, Target)
              /\ i' = 0 /\ polls' = 0 /\ slept' = 0
              /\ sawActive' = FALSE /\ url' = NoUrl
              /\ pc' = "sleep"
              /\ UNCHANGED <<exit, err, refused>>
         ELSE /\ Raise("activateDeploy", r) /\ Rejected
              /\ UNCHANGED <<activated, i, polls, slept, sawActive, url>>
    /\ UNCHANGED <<argVars, envVars, cfgVars, sdk, siteId, pkgVars, upVars,
                   deploys, act, listed, tmpZip, createResult, submitted,
                   prompts>>

\* waitTillActive(), line 126
Sleep ==
    /\ pc = "sleep"
    /\ slept' = slept + SleepMillis
    /\ pc' = "poll"
    /\ UNCHANGED <<argVars, envVars, cfgVars, exit, sdk, siteId, pkgVars,
                   upVars, deploys, act, i, url, activated, listed, polls,
                   sawActive, tmpZip, calls, createResult, submitted, err,
                   refused, prompts>>

\* variant: in batch mode a timed-out deploy is passed over
WaitTillActiveReturnedContinue(u) ==
    IF u = NoUrl /\ (name # NoName \/ act = Len(Folders))
    THEN /\ Raise("waitTillActive", "TIMEOUT") /\ processExit("exit1")
         /\ UNCHANGED <<deploys, act, listed>>
    ELSE /\ IF u = NoUrl THEN Raise("waitTillActive", "TIMEOUT")
            ELSE UNCHANGED <<err, refused>>
         /\ IF name # NoName
            THEN /\ pc' = "done" /\ exit' = "returned"
                 /\ UNCHANGED <<deploys, act, listed>>
            ELSE LET ds == [deploys EXCEPT ![Folders[act]].url = u]
                 IN /\ deploys' = ds
                    /\ IF act < Len(Folders)
                       THEN /\ act' = act + 1 /\ pc' = "activate"
                            /\ UNCHANGED <<exit, listed>>
                       ELSE /\ act' = act
                            /\ listed' = [k \in 1..Len(Folders) |->
                                            ds[Folders[k]].url]
                            /\ processExit("exit0")

\* deploy(), lines 68-75 and 104-120: waitTillActive returned u
WaitTillActiveReturned(u) ==
    IF u = NoUrl
    THEN /\ Raise("waitTillActive", "TIMEOUT") /\ processExit("exit1")
         /\ UNCHANGED <<deploys, act, listed>>
    ELSE /\ UNCHANGED <<err, refused>>
         /\ IF name # NoName
            THEN /\ pc' = "done" /\ exit' = "returned"
                 /\ UNCHANGED <<deploys, act, listed>>
            ELSE LET ds == [deploys EXCEPT ![Folders[act]].url = u]
                 IN /\ deploys' = ds
                    /\ IF act < Len(Folders)
                       THEN /\ act' = act + 1 /\ pc' = "activate"
                            /\ UNCHANGED <<exit, listed>>
                       ELSE /\ act' = act
                            /\ listed' = [k \in 1..Len(Folders) |->
                                            ds[Folders[k]].url]
                            /\ processExit("exit0")

\* variant: the polling loop has no attempt counter (while (true))
IsDeployActiveNoCounter ==
    /\ pc = "poll"
    /\ Call("isDeployActive")
    /\ polls' = polls + 1
    /\ \E r \in {"active", "inactive", "ECONNREFUSED", "ERR"} :
         CASE r = "active" ->
                /\ sawActive' = TRUE
                /\ url' = UrlOf(Target)
                /\ i' = i
                /\ WaitTillActiveReturned(UrlOf(Target))
           [] r = "inactive" ->
                /\ i' = i
                /\ UNCHANGED <<sawActive, url>>
                /\ pc' = "sleep"
                /\ UNCHANGED <<exit, deploys, act, listed, err, refused>>
           [] OTHER ->
                /\ Raise("isDeployActive", r) /\ Rejected
                /\ UNCHANGED <<sawActive, url, i, deploys, act, listed>>
    /\ UNCHANGED <<argVars, envVars, cfgVars, sdk, siteId, pkgVars, upVars,
                   slept, activated, tmpZip, createResult, submitted, prompts>>

\* waitTillActive(), lines 127-132
IsDeployActive ==
    /\ pc = "poll"
    /\ Call("isDeployActive")
    /\ polls' = polls + 1
    /\ \E r \in {"active", "inactive", "ECONNREFUSED", "ERR"} :
         CASE r = "active" ->
                /\ sawActive' = TRUE
                /\ url' = UrlOf(Target)
                /\ i' = i
                /\ WaitTillActiveReturned(UrlOf(Target))
           [] r = "inactive" ->
                /\ i' = i + 1
                /\ UNCHANGED <<sawActive, url>>
                /\ IF i + 1 < MaxAttempts
                   THEN /\ pc' = "sleep"
                        /\ UNCHANGED <<exit, deploys, act, listed, err, refused>>
                   ELSE WaitTillActiveReturned(NoUrl)
           [] OTHER ->
                /\ Raise("isDeployActive", r) /\ Rejected
                /\ UNCHANGED <<sawActive, url, i, deploys, act, listed>>
    /\ UNCHANGED <<argVars, envVars, cfgVars, sdk, siteId, pkgVars, upVars,
                   slept, activated, tmpZip, createResult, submitted, prompts>>

Next ==
    \/ \E c \in BOOLEAN, n \in NameArgs : Start(c, n)
    \/ SetupSDK
    \/ WhoAmI
    \/ AskForToken
    \/ GetSiteId
    \/ AskForSite
    \/ ListPackages
    \/ EnsureBuild
    \/ BuildSsr
    \/ GetFilesDigest
    \/ CreateZip
    \/ GetFileHash
    \/ CreateDeploy
    \/ PresignFiles
    \/ ReadFiles
    \/ \E f \in pending : UploadDone(f)
    \/ ReturnDeploy
    \/ ActivateDeploy
    \/ Sleep
    \/ IsDeployActive

Spec == Init /\ [][Next]_vars

\* ------------------------------------------------- several runs in a row
\* a project without a site binding, on a machine without a token: the
\* project record does not exist, or holds other keys only
Unbound == {NullCfg, [siteId |-> Null, other |-> "x"]}

InitRuns ==
    /\ ci = FALSE /\ name = NoName
    /\ envToken = "" /\ envSite = ""
    /\ globalCfg = NullCfg /\ projectCfg \in Unbound
    /\ pc = "idle" /\ exit = "running"
    /\ sdk = Null /\ siteId = Null
    /\ packages = <<>> /\ cur = 0
    /\ files = {} /\ deploy = NoDeploy /\ presigned = {} /\ pending = {}
    /\ deploys = <<>> /\ act = 0 /\ i = 0 /\ url = NoUrl /\ tmpZip = NoZip
    /\ calls = {} /\ createResult = <<>> /\ submitted = {}
    /\ activated = <<>> /\ uploaded = {} /\ listed = <<>>
    /\ polls = 0 /\ slept = 0 /\ sawActive = FALSE
    /\ err = NoErr /\ refused = FALSE /\ prompts = {} /\ warned = FALSE
    /\ discovered = FALSE /\ stages = <<>>
    /\ resolved = Null

\* the process has ended and the command is started again in the same
\* project: a new Deploy object, the same environment, and the config
\* files as the earlier run left them
Rerun ==
    /\ pc = "done"
    /\ resolved' = IF "site" \in prompts /\ siteId # Null THEN siteId
                   ELSE resolved
    /\ ci' = FALSE /\ name' = NoName
    /\ pc' = "idle" /\ exit' = "running"
    /\ sdk' = Null /\ siteId' = Null
    /\ packages' = <<>> /\ cur' = 0
    /\ files' = {} /\ deploy' = NoDeploy /\ presigned' = {} /\ pending' = {}
    /\ deploys' = <<>> /\ act' = 0 /\ i' = 0 /\ url' = NoUrl
    /\ calls' = {} /\ createResult' = <<>> /\ submitted' = {}
    /\ activated' = <<>> /\ uploaded' = {} /\ listed' = <<>>
    /\ polls' = 0 /\ slept' = 0 /\ sawActive' = FALSE
    /\ err' = NoErr /\ refused' = FALSE /\ prompts' = {} /\ warned' = FALSE
    /\ discovered' = FALSE /\ stages' = <<>>
    /\ UNCHANGED <<envToken, envSite, cfgVars, tmpZip>>

NextRuns == Next \/ Rerun

SpecRuns == InitRuns /\ [][NextRuns]_vars

\* ------------------------------------------------------------- progress
\* every awaited call (prompt, build, remote call, file read, archive,
\* timer) settles: a run that can take a step eventually takes one
FairSpec == Spec /\ WF_vars(Next)

TypeOK ==
    /\ exit \in {"running", "exit0", "exit1", "returned", "rejected"}
    /\ (pc = "done") = (exit # "running")
    /\ polls \in 0..MaxAttempts
    /\ act \in 0..Len(packages)
    /\ cur \in 0..Len(packages)

\* ================================================================ claims
Range(q) == { q[k] : k \in 1..Len(q) }
Batch  == pc # "idle" /\ name = NoName
Single == pc # "idle" /\ name # NoName

\* C1: in a batch-mode run that reaches completion, the number of URLs
\* listed at the end equals the number of discovered packages whose
\* createDeploy call did not end in the no-changes condition.
C1_BatchUrlCount ==
    (Batch /\ exit = "exit0") =>
        Len(listed) = Cardinality({ n \in 1..Len(packages) :
                                    createResult[n] # "NO_CHANGES_DETECTED" })

C1_Witness ==
    /\ Batch /\ exit = "exit0"
    /\ Len(packages) = 2 /\ Len(listed) = 1
    /\ \E n \in 1..Len(packages) : createResult[n] = "NO_CHANGES_DETECTED"

\* C2: waitTillActive runs after activateDeploy, polls isDeployActive at
\* most 10 times with one 5-second pause before each poll, returns the
\* deploy's URL at the first poll that reports active without polling
\* again, and returns no URL after exactly 10 polls when none reports active.
C2_PollingPolicy ==
    /\ polls <= 10
    /\ pc \in {"sleep", "poll"} =>
          /\ activated # <<>> /\ activated[Len(activated)] = Target
          /\ ~sawActive /\ polls = i
    /\ pc = "sleep" => slept = 5000 * polls
    /\ pc = "poll"  => slept = 5000 * (polls + 1)
    /\ sawActive =>
          /\ url = UrlOf(activated[Len(activated)])
          /\ polls = i + 1 /\ slept = 5000 * polls
          /\ pc \in {"activate", "done"}
    /\ err.code = "TIMEOUT" => polls = 10 /\ ~sawActive /\ url = NoUrl
    /\ (polls = 10 /\ ~sawActive) => pc = "done" /\ url = NoUrl

C2_Witness ==
    /\ err.code = "TIMEOUT" /\ polls = 10 /\ slept = 50000
    /\ exit = "exit1" /\ url = NoUrl

\* C3: with --ci, when the access-token variable or the site-id variable is
\* unset or empty, the run exits with a non-zero code before any remote call.
C3_CiRequiresBothVariables ==
    (ci /\ (envToken = "" \/ envSite = "")) =>
        (exit = "exit1" /\ calls = {} /\ prompts = {})

C3_Witness ==
    ci /\ envToken = "tokE" /\ envSite = "" /\ exit = "exit1" /\ calls = {}

\* the keys the deploy record marks required that were never submitted
RequiredKeys ==
    IF "files" \in DOMAIN deploy
    THEN { f.key : f \in { g \in deploy.files : g.required } }
    ELSE {}
MissingKeys == RequiredKeys \ FileKeys(submitted)

\* C4: a required key without a matching local FileRecord ends the run with
\* a fatal failure: nothing is uploaded for the deploy (no skipped, wrong or
\* empty payload) and the deploy is never activated.
C4_MissingLocalFileIsFatal ==
    MissingKeys # {} =>
        /\ pc \in {"presign", "read"} \/ exit = "exit1"
        /\ pending = {} /\ uploaded = {}
        /\ deploy.id \notin Range(activated)
        /\ \A n \in 1..Len(deploys) : deploys[n] = NoDeploy \/ deploys[n].id # deploy.id

C4_Witness ==
    /\ MissingKeys = {GhostKey} /\ RequiredKeys = {GhostKey, "index.html"}
    /\ err = [step |-> "readFile", code |-> "TypeError"]
    /\ exit = "exit1" /\ uploaded = {}

\* C5: in batch mode a no-changes answer of createDeploy does not fail the
\* run: the run goes on with the next package (or ends the creation loop),
\* and the package is never activated and is absent from the URL listing.
C5_NoChangesSkipsPackage ==
    /\ [](Batch => \A n \in 1..Len(packages) :
              createResult[n] = "NO_CHANGES_DETECTED" =>
                  /\ deploys[n] = NoDeploy
                  /\ n \notin Range(activated)
                  /\ UrlOf(n) \notin Range(listed))
    /\ [][(Batch /\ pc = "createDeploy"
                 /\ createResult'[cur] = "NO_CHANGES_DETECTED") =>
             /\ exit' \in {"running", "exit0"}
             /\ IF cur < Len(packages)
                THEN cur' = cur + 1 /\ pc' = "build" /\ exit' = "running"
                ELSE (exit' = "exit0") = (Folders = <<>>)]_vars

C5_Witness ==
    /\ Batch /\ Len(packages) = 2
    /\ createResult[1] = "NO_CHANGES_DETECTED"
    /\ cur = 2 /\ pc = "build" /\ exit = "running"

\* C6: in batch mode the deploys are activated and polled one at a time in
\* the order of the deploys map: the next activateDeploy comes only after
\* the previous deploy was reported active, and a polling timeout exits
\* with failure at once, leaving the remaining deploys untouched.
C6_SequentialActivation ==
    Batch =>
        /\ Len(activated) <= Len(Folders)
        /\ \A k \in 1..Len(activated) : activated[k] = deploys[Folders[k]].id
        /\ \A k \in 1..(Len(activated) - 1) : deploys[Folders[k]].url # NoUrl
        /\ pc \in {"sleep", "poll"} => Len(activated) = act
        /\ err.code = "TIMEOUT" =>
              /\ exit = "exit1"
              /\ Len(activated) = act
              /\ deploys[Folders[act]].url = NoUrl

C6_Witness ==
    /\ Batch /\ Len(Folders) = 2
    /\ err.code = "TIMEOUT" /\ exit = "exit1"
    /\ activated = <<deploys[Folders[1]].id>>

PipelineSteps ==
    {"build", "build:ssr", "getFilesDigest", "createZip", "getFileHash",
     "createDeploy", "presignFiles", "readFile", "uploadPresignedFile",
     "activateDeploy", "isDeployActive", "waitTillActive"}

\* C7: in single-package mode the pipeline runs for the named package
\* only; no-changes ends the run without activation and without failure;
\* any other failure of the pipeline, or an activation timeout, makes the
\* process exit with failure.
C7_SingleModeFailuresExit ==
    Single =>
        /\ \A n \in 1..Len(packages) : n # name => createResult[n] = "none"
        /\ err.code = "NO_CHANGES_DETECTED" =>
              exit = "returned" /\ activated = <<>>
        /\ (err.step \in PipelineSteps /\ err.code # "NO_CHANGES_DETECTED") =>
              exit = "exit1"

\* C8: a failed build stage (a build command that exits non-zero, or an ssr
\* package without a build:ssr script) aborts the whole run with failure:
\* no createDeploy for that package or a later one, and no deploy created
\* earlier in the run is activated.
C8_BuildFailureAborts ==
    err.step \in {"build", "build:ssr"} =>
        /\ exit = "exit1"
        /\ \A n \in 1..Len(packages) : n >= cur => createResult[n] = "none"
        /\ activated = <<>>
        /\ calls \cap {"activateDeploy", "isDeployActive"} = {}

C8_Witness ==
    /\ Batch /\ cur = 2 /\ createResult[1] = "ok" /\ deploys[1] # NoDeploy
    /\ err = [step |-> "build", code |-> "NO_SSR_SCRIPT"]
    /\ exit = "exit1"

\* C9: whenever a remote call fails with the connection-refused condition,
\* the whole process terminates with a failure exit (and, being terminated,
\* starts no further remote call).
C9_ConnectionRefusedExits ==
    refused => exit = "exit1"

\* C10: every error raised by a step of a run terminates the run, except
\* the no-changes condition and an archiver warning for a missing entry:
\* no other error is dropped with the run continuing to a later step.
C10_NoErrorSwallowed ==
    (err # NoErr /\ err.code # "NO_CHANGES_DETECTED") => exit # "running"

\* C11: in a run started with --ci a token that whoami rejects is fatal:
\* the run does not ask for a token (the interactive re-prompt is the
\* recovery outside CI only) and ends with failure.
C11_CiRejectedTokenIsFatal ==
    ci => (pc # "askToken" /\ "token" \notin prompts)

\* C12: in batch mode, when no package produced a deploy (the discovered
\* list is empty, or createDeploy answered no-changes for every package),
\* the run ends with the success exit code, and activateDeploy and
\* isDeployActive are never called.
C12_NothingToActivate ==
    (Batch /\ discovered
           /\ \A n \in 1..Len(packages) :
                 createResult[n] = "NO_CHANGES_DETECTED") =>
        /\ exit = "exit0"
        /\ calls \cap {"activateDeploy", "isDeployActive"} = {}
        /\ activated = <<>> /\ listed = <<>>

C12_Witness ==
    /\ Batch /\ discovered /\ Len(packages) = 2
    /\ \A n \in 1..2 : createResult[n] = "NO_CHANGES_DETECTED"
    /\ exit = "exit0" /\ "createDeploy" \in calls

\* the package being deployed is of type function
FunctionPkg == cur > 0 /\ packages[cur].type = "function"
TheArchiveRecord ==
    [key |-> ZipKey, hash |-> Hash(<<"zip", cur>>), abs |-> ZipPath,
     type |-> "application/zip"]

\* C13 (amended): for a function package createDeploy receives exactly one
\* FileRecord (key "function.zip", type application/zip) whose digest is
\* that of the archive finalized on disk for this package, and at most one
\* upload occurs for the package: when the upload phase completes, exactly
\* one if the deploy marks function.zip required and none if it does not.
C13_FunctionSingleArchive ==
    FunctionPkg =>
        /\ pc \in {"presign", "read", "upload", "uploaded"} => submitted # {}
        /\ submitted # {} =>
              /\ submitted = {TheArchiveRecord}
              /\ tmpZip = <<"zip", cur>>
              /\ \E k \in 1..(Len(stages) - 1) :
                    stages[k] = "archive" /\ stages[k + 1] = "hash"
        /\ Cardinality(uploaded) <= 1
        /\ \A u \in uploaded : u.key = ZipKey /\ u.deploy = cur
        /\ pc = "uploaded" =>
              (Cardinality(uploaded) = 1) = (ZipKey \in RequiredKeys)

C13_Witness ==
    /\ FunctionPkg /\ pc = "uploaded"
    /\ submitted = {TheArchiveRecord}
    /\ uploaded = {[deploy |-> cur, key |-> ZipKey, content |-> <<"zip", cur>>]}

\* C13 as stated: exactly one upload occurs for every function package
\* whose upload phase completes.
C13_FunctionExactlyOneUpload ==
    (FunctionPkg /\ pc = "uploaded") => Cardinality(uploaded) = 1

\* the token and the site id held by a config record (Null when absent)
StoredToken == IF globalCfg = NullCfg THEN Null ELSE globalCfg.accessToken
StoredSite == IF projectCfg = NullCfg THEN Null ELSE projectCfg.siteId
SetupDone == discovered \/ pc = "listPackages"

\* C14 (amended): when the access-token variable is set the SDK is created
\* with its value whatever the stored config holds, and the run keeps that
\* token unless whoami rejects it, in which case the token entered at the
\* prompt is used; when the site-id variable is set its value is the site
\* id of the run; an environment value is never written to the global or
\* the per-project config record.
C14_EnvironmentPrecedence ==
    /\ (envToken # "" /\ sdk # Null) =>
          \/ sdk = envToken
          \/ sdk = "tokP" /\ "token" \in prompts
    /\ (envToken # "" /\ pc = "whoami") => sdk = envToken
    /\ (envSite # "" /\ SetupDone) => siteId = envSite
    /\ envToken # "" => StoredToken # envToken
    /\ envSite # "" => StoredSite # envSite /\ "site" \notin prompts

C14_Witness ==
    /\ envToken = "tokE" /\ envSite = "siteE"
    /\ StoredToken = "tokS" /\ StoredSite = "siteS"
    /\ sdk = "tokE" /\ siteId = "siteE" /\ "createDeploy" \in calls

\* C14 as stated: a set access-token variable is the token the run uses.
C14_EnvironmentTokenIsUsed ==
    (envToken # "" /\ SetupDone) => sdk = envToken

\* C15: once a run has resolved the site id by prompting, the id is in the
\* per-project record: every later run without a site-id variable uses
\* that id, neither prompts for the site nor calls sites(); and storing
\* the site id changes no other key of the record.
C15_SiteBindingPersists ==
    /\ []((resolved # Null /\ envSite = "") =>
             /\ StoredSite = resolved
             /\ "site" \notin prompts /\ "sites" \notin calls
             /\ pc # "askSite"
             /\ SetupDone => siteId = resolved)
    /\ []((SetupDone /\ "site" \in prompts) => StoredSite = siteId)
    /\ [][projectCfg' # projectCfg =>
             /\ pc = "askSite"
             /\ projectCfg'.siteId = siteId'
             /\ projectCfg # NullCfg => projectCfg'.other = projectCfg.other]_vars

C15_Witness ==
    /\ resolved = "siteP" /\ envSite = "" /\ prompts = {}
    /\ projectCfg = [siteId |-> "siteP", other |-> "x"]
    /\ siteId = "siteP" /\ exit = "exit0" /\ listed # <<>>

\* C16: uploadFiles asks presigned targets for exactly the files of
\* deploy.files marked required; a file that is not marked required is
\* never read or uploaded; when no file is required no upload occurs.
C16_PresignExactlyRequired ==
    /\ pc \in {"read", "upload", "uploaded"} => presigned = RequiredKeys
    /\ FileKeys(pending) \subseteq RequiredKeys
    /\ FileKeys(uploaded) \subseteq RequiredKeys
    /\ RequiredKeys = {} =>
          pending = {} /\ uploaded = {} /\ pc # "upload"

C16_Witness ==
    /\ pc = "uploaded" /\ RequiredKeys = {"index.html"}
    /\ FileKeys(deploy.files) = {"index.html", "main.js"}
    /\ FileKeys(uploaded) = {"index.html"}

\* C17: the uploads of a package are started together and awaited
\* together: whatever the order in which they complete, uploadFiles
\* returns only when every presigned file has been uploaded, and when one
\* upload fails the package's deploy is not returned and never activated.
C17_UploadsAwaitedTogether ==
    /\ pc = "upload" =>
          /\ pending # {}
          /\ FileKeys(pending) \cup FileKeys(uploaded) = presigned
          /\ FileKeys(pending) \cap FileKeys(uploaded) = {}
    /\ pc = "uploaded" => pending = {} /\ FileKeys(uploaded) = presigned
    /\ err.step = "uploadPresignedFile" =>
          /\ exit = "exit1"
          /\ "upload" \notin Range(stages)
          /\ deploy.id \notin Range(activated)
          /\ \A n \in 1..Len(deploys) :
                deploys[n] = NoDeploy \/ deploys[n].id # deploy.id

C17_Witness ==
    /\ err.step = "uploadPresignedFile" /\ exit = "exit1"
    /\ presigned = {"index.html", "main.js"}
    /\ FileKeys(uploaded) = {"main.js"} /\ FileKeys(pending) = {"index.html"}

\* the steps deployPackage takes for package p, in the order of the code
Pipeline(p) ==
    <<"build">> \o (IF p.ssr THEN <<"build:ssr">> ELSE <<>>)
                \o (IF p.type = "app" THEN <<"digest">> ELSE <<"archive", "hash">>)
                \o <<"createDeploy", "presign", "read", "upload">>
IsPrefix(s, t) == Len(s) <= Len(t) /\ \A k \in 1..Len(s) : s[k] = t[k]
\* the step a run suspended at a creation pc is performing
StepAt ==
    [build |-> "build", buildSsr |-> "build:ssr", digest |-> "digest",
     zip |-> "archive", hash |-> "hash", createDeploy |-> "createDeploy",
     presign |-> "presign", read |-> "read"]
Returned(n) == deploys[n] # NoDeploy

\* C18: within one package the steps are strictly sequential, each one
\* starting only after the previous one completed: build, digest or
\* archive, createDeploy, upload, activateDeploy, polling; activateDeploy
\* is called at most once per deploy, and only for a deploy that
\* createDeploy returned in this run and whose upload phase completed.
C18_PackageStepsSequential ==
    /\ [](cur > 0 =>
            /\ IsPrefix(stages, Pipeline(packages[cur]))
            /\ pc \in DOMAIN StepAt =>
                  IsPrefix(Append(stages, StepAt[pc]), Pipeline(packages[cur]))
            /\ pc = "upload" =>
                  Append(stages, "upload") = Pipeline(packages[cur])
            /\ pc = "uploaded" => stages = Pipeline(packages[cur]))
    /\ [](/\ Cardinality(Range(activated)) = Len(activated)
          /\ \A n \in Range(activated) :
                /\ n \in 1..Len(packages) /\ createResult[n] = "ok"
                /\ IF name # NoName
                   THEN n = cur /\ stages = Pipeline(packages[cur])
                   ELSE Returned(n) /\ deploys[n].id = n
          /\ (pc \in {"sleep", "poll"} \/ polls > 0) => activated # <<>>)
    /\ [][\A n \in 1..Len(deploys) :
             (~Returned(n) /\ Returned(n)') =>
                 /\ n = cur /\ pc = "uploaded"
                 /\ stages = Pipeline(packages[cur])]_vars

C18_Witness ==
    /\ Single /\ cur > 0 /\ packages[cur].ssr
    /\ stages = Pipeline(packages[cur])
    /\ activated = <<cur>> /\ pc = "poll" /\ polls = 1

\* package n has finished its create-and-upload step or was skipped
Finished(n) ==
    \/ createResult[n] = "NO_CHANGES_DETECTED"
    \/ createResult[n] = "ok" /\ Returned(n)
CreationPcs ==
    {"build", "buildSsr", "digest", "zip", "hash", "createDeploy", "presign",
     "read", "upload", "uploaded"}

\* C19: in batch mode the packages are created one at a time in discovery
\* order (package n + 1 is not begun before package n finished its upload
\* or was skipped), and no activateDeploy call is made before every
\* discovered package has finished its create-and-upload step or was skipped.
C19_CreationPrecedesActivation ==
    (Batch /\ discovered) =>
        /\ \A n \in 1..Len(packages) :
              /\ n < cur => Finished(n)
              /\ n > cur => createResult[n] = "none" /\ ~Returned(n)
        /\ pc \in CreationPcs =>
              activated = <<>> /\ "activateDeploy" \notin calls
        /\ (pc \in {"activate", "sleep", "poll"} \/ "activateDeploy" \in calls) =>
              \A n \in 1..Len(packages) : Finished(n)

C19_Witness ==
    /\ Batch /\ Len(packages) = 2 /\ \A n \in 1..2 : Finished(n)
    /\ createResult[1] = "ok" /\ createResult[2] = "NO_CHANGES_DETECTED"
    /\ activated = <<1>> /\ pc = "poll"

\* C20: every function package writes its archive to the same fixed path;
\* the digest sent to createDeploy and the content uploaded for a function
\* package are those of the archive built from that package's own build
\* output, never those of another package's archive at the same path.
C20_OwnArchive ==
    FunctionPkg =>
        /\ \A f \in files \cup submitted :
              f.abs = ZipPath /\ f.hash = Hash(<<"zip", cur>>)
        /\ pc \in {"hash", "createDeploy", "presign", "read", "upload", "uploaded"}
              => tmpZip = <<"zip", cur>>
        /\ \A f \in pending : f.content = <<"zip", cur>>
        /\ \A u \in uploaded : u.deploy = cur /\ u.content = <<"zip", cur>>

C20_Witness ==
    /\ Batch /\ Len(packages) = 2
    /\ \A n \in 1..2 : packages[n].type = "function"
    /\ Returned(1) /\ cur = 2 /\ pc = "uploaded"
    /\ uploaded = {[deploy |-> 2, key |-> ZipKey, content |-> <<"zip", 2>>]}

\* C21: in single-package mode, when the name matches none of the
\* discovered packages, the run ends with a failure exit, and createDeploy,
\* presignFiles, uploadPresignedFile and activateDeploy are never called.
C21_UnknownNameFails ==
    (Single /\ discovered /\ name \notin 1..Len(packages)) =>
        /\ pc \in {"build", "done"}
        /\ pc = "done" =>
              exit = "exit1" /\ err = [step |-> "build", code |-> "TypeError"]
        /\ calls \cap {"createDeploy", "presignFiles", "uploadPresignedFile",
                       "activateDeploy"} = {}
        /\ stages = <<>> /\ activated = <<>>

C21_Witness ==
    /\ Single /\ discovered /\ name = 2 /\ Len(packages) = 1
    /\ exit = "exit1" /\ err.code = "TypeError"

\* C22: provided every external call eventually returns or fails, every
\* run over a finite package list terminates, having called createDeploy
\* at most once per discovered package, activateDeploy at most once per
\* created deploy and isDeployActive at most 10 times per activated deploy.
C22_TerminatesWithinBudget ==
    /\ <>(pc = "done")
    /\ [](/\ polls <= MaxAttempts
          /\ Len(activated) <= Cardinality({ n \in 1..Len(packages) :
                                             createResult[n] = "ok" }))
    /\ [][/\ pc = "createDeploy" =>
               /\ createResult[cur] = "none" /\ createResult'[cur] # "none"
               /\ \A n \in 1..Len(packages) :
                     n # cur => createResult'[n] = createResult[n]
          /\ pc = "activate" =>
               /\ Target \notin Range(activated)
               /\ createResult[Target] = "ok"
               /\ \/ activated' = Append(activated, Target) /\ polls' = 0
                  \/ activated' = activated /\ exit' = "rejected"
          /\ pc = "poll" => polls < MaxAttempts /\ polls' = polls + 1
          /\ pc \notin {"activate", "poll"} => polls' = polls]_vars

C22_Witness ==
    /\ Batch /\ Len(packages) = 2 /\ exit = "exit0"
    /\ activated = <<1, 2>> /\ polls = MaxAttempts /\ sawActive
====
